---- MODULE Spec2Model ----
(***************************************************************************)
(* A model of universal_mcp_contentful/app.py: the ContentfulApp class.    *)
(*                                                                         *)
(* Encoding of Python values.                                              *)
(*   - A Python value that may be None is boxed: None is the empty tuple   *)
(*     and any other value v is the one-element tuple <<v>>, so that None  *)
(*     can be compared with a value of any type.                           *)
(*   - A dict is a function whose DOMAIN is its set of keys.               *)
(*   - Credential fields, URLs and selections are TLA+ strings; f-string   *)
(*     formatting is string concatenation.                                 *)
(*   - A content type id, and every name derived from it, is a sequence of *)
(*     one-character strings, so that replace/split/lower/capitalize are   *)
(*     computed character by character as Python computes them.            *)
(***************************************************************************)
EXTENDS Integers, Sequences, FiniteSets, TLC

VARIABLES
    integration,      \* the constructor's argument: None or <<provider>>
    constructed,      \* "no": before __init__; "yes": __init__ returned;
                      \* "raised": __init__ propagated an exception
    space_id,         \* self.space_id: None or <<string>>
    environment_id,   \* self.environment_id: string
    _access_token,    \* self._access_token: None or <<string>>
    base_url,         \* self.base_url (stored by the superclass constructor)
    credCalls,        \* number of integration.get_credentials() calls so far
    call,             \* the last tool invocation: its name, arguments and the
                      \* outcome the execution collaborator chose for it
    sent,             \* the last request handed to self.query / self.mutate
    result,           \* what the last tool invocation gave its caller
    nextObj,          \* identity of the next dict object to be allocated
    s_in,             \* argument of the case converters (SpecCase)
    camel_out,        \* None or <<_to_camel_case(s_in)>>
    pascal_out        \* None or <<_to_pascal_case(s_in)>>

vars == <<integration, constructed, space_id, environment_id, _access_token,
          base_url, credCalls, call, sent, result, nextObj,
          s_in, camel_out, pascal_out>>

appVars == <<integration, constructed, space_id, environment_id, _access_token,
             base_url, credCalls, call, sent, result, nextObj>>

caseVars == <<s_in, camel_out, pascal_out>>

---------------------------------------------------------------------------
(* Bounds of the model *)

\* longest content type id the case converters are applied to in SpecCase
MaxLen == 4

\* number of dict objects one instance may allocate before the model stops
MaxObjs == 2

---------------------------------------------------------------------------
(* Python values *)

None == <<>>

Some(v) == <<v>>

\* dict.get(key): None when the key is absent
Get(d, k) == IF k \in DOMAIN d THEN Some(d[k]) ELSE None

\* dict.get(key, default)
GetDefault(d, k, default) == IF k \in DOMAIN d THEN d[k] ELSE default

\* truth value of an Optional[str]: None and "" are false
TruthyStr(o) == o # None /\ o[1] # ""

\* truth value of an Optional[Dict]: None and {} are false
TruthyDict(o) == o # None /\ DOMAIN o[1] # {}

\* truth value of an Optional[List]: None and [] are false
TruthyList(o) == o # None /\ Len(o[1]) > 0

\* Python's `a or b` on Optional[str]
OrStr(a, b) == IF TruthyStr(a) THEN a ELSE b

\* d[k] = v on a dict
Put(d, k, v) == [x \in DOMAIN d \cup {k} |-> IF x = k THEN v ELSE d[x]]

EmptyDict == [x \in {} |-> None]

---------------------------------------------------------------------------
(* Characters and str methods *)

LowerLetters == <<"a","b","c","d","e","f","g","h","i","j","k","l","m",
                  "n","o","p","q","r","s","t","u","v","w","x","y","z">>

UpperLetters == <<"A","B","C","D","E","F","G","H","I","J","K","L","M",
                  "N","O","P","Q","R","S","T","U","V","W","X","Y","Z">>

\* str.lower() of one character
LowerChar(c) ==
    IF \E i \in 1..Len(UpperLetters) : UpperLetters[i] = c
    THEN LowerLetters[CHOOSE i \in 1..Len(UpperLetters) : UpperLetters[i] = c]
    ELSE c

\* str.upper() of one character
UpperChar(c) ==
    IF \E i \in 1..Len(LowerLetters) : LowerLetters[i] = c
    THEN UpperLetters[CHOOSE i \in 1..Len(LowerLetters) : LowerLetters[i] = c]
    ELSE c

\* str.lower()
lower(w) == [i \in 1..Len(w) |-> LowerChar(w[i])]

\* str.upper()
upper(w) == [i \in 1..Len(w) |-> UpperChar(w[i])]

\* str.capitalize(): first character upper-cased, all the others lower-cased
capitalize(w) ==
    [i \in 1..Len(w) |-> IF i = 1 THEN UpperChar(w[i]) ELSE LowerChar(w[i])]

\* str.replace(old, new) for one-character old and new
replace(w, old, new) == [i \in 1..Len(w) |-> IF w[i] = old THEN new ELSE w[i]]

\* the characters str.split() treats as separators
IsSpace(c) == c \in {" ", "\t"}

RECURSIVE SplitFrom(_, _, _)
\* scan w from position i with the token under construction cur
SplitFrom(w, i, cur) ==
    IF i > Len(w)
    THEN IF cur = <<>> THEN <<>> ELSE <<cur>>
    ELSE IF IsSpace(w[i])
         THEN IF cur = <<>>
              THEN SplitFrom(w, i + 1, <<>>)
              ELSE <<cur>> \o SplitFrom(w, i + 1, <<>>)
         ELSE SplitFrom(w, i + 1, Append(cur, w[i]))

\* str.split(): the maximal runs of non-whitespace characters
split(w) == SplitFrom(w, 1, <<>>)

RECURSIVE join(_)
\* "".join(words)
join(words) == IF words = <<>> THEN <<>> ELSE Head(words) \o join(Tail(words))

\* [f(word) for word in words] with f = str.capitalize
CapitalizeAll(words) == [i \in 1..Len(words) |-> capitalize(words[i])]

---------------------------------------------------------------------------
(* Identifier case conversion: the two static methods *)

\* _to_camel_case without its no-separator branch: the first token is always
\* lower-cased whole
_to_camel_case_no_single_branch(s0) ==
    LET s == replace(replace(s0, "-", " "), "_", " ")
        parts == split(s)
    IN  IF parts = <<>>
        THEN <<>>
        ELSE lower(parts[1]) \o join(CapitalizeAll(Tail(parts)))

\* ContentfulApp._to_camel_case
_to_camel_case(s0) ==
    LET s == replace(replace(s0, "-", " "), "_", " ")
        parts == split(s)
    IN  IF parts = <<>>
        THEN <<>>
        ELSE IF Len(parts) = 1 /\ parts[1] = s /\ s # <<>>
             THEN IF Len(s) > 1
                  THEN <<LowerChar(s[1])>> \o SubSeq(s, 2, Len(s))
                  ELSE lower(s)
             ELSE lower(parts[1]) \o join(CapitalizeAll(Tail(parts)))

\* ContentfulApp._to_pascal_case
_to_pascal_case(s0) ==
    LET s == replace(replace(s0, "-", " "), "_", " ")
        parts == split(s)
    IN  IF parts = <<>>
        THEN <<>>
        ELSE IF Len(parts) = 1 /\ parts[1] = s /\ s # <<>>
             THEN IF Len(s) > 1
                  THEN <<UpperChar(s[1])>> \o SubSeq(s, 2, Len(s))
                  ELSE upper(s)
             ELSE join(CapitalizeAll(parts))

\* the characters content type ids are drawn from in SpecCase: a lower-case
\* and an upper-case letter, the three separators the converters replace or
\* split on, and one more whitespace character str.split() splits on
Alphabet == {"a", "B", "-", "_", " ", "\t"}

\* every string over Alphabet of length at most MaxLen
Strs == UNION {[1..n -> Alphabet] : n \in 0..MaxLen}

---------------------------------------------------------------------------
(* The credential provider: the constructor's `integration` argument *)

\* the credentials dict holding exactly the supplied keys (None: not supplied)
MkCredentials(sp, tok, key, env, eu) ==
    LET d1 == IF sp = None THEN EmptyDict ELSE Put(EmptyDict, "space_id", sp[1])
        d2 == IF tok = None THEN d1 ELSE Put(d1, "access_token", tok[1])
        d3 == IF key = None THEN d2 ELSE Put(d2, "api_key", key[1])
        d4 == IF env = None THEN d3 ELSE Put(d3, "environment_id", env[1])
    IN  IF eu = None THEN d4 ELSE Put(d4, "is_eu_customer", eu[1])

\* the credentials a provider may return
CredentialDicts ==
    { MkCredentials(sp, tok, key, env, eu) :
        sp  \in {None, Some(""), Some("sp1")},
        tok \in {None, Some(""), Some("cda-token")},
        key \in {None, Some("api-key")},
        env \in {None, Some("staging")},
        eu  \in {None, Some(FALSE), Some(TRUE)} }

\* the errors integration.get_credentials() may raise
ProviderErrors == {"NotAuthorizedError", "Exception"}

\* a provider either returns a credentials dict or raises
Providers ==
    { [behaviour |-> "returns", credentials |-> d, error |-> ""] :
        d \in CredentialDicts }
    \cup
    { [behaviour |-> "raises", credentials |-> EmptyDict, error |-> e] :
        e \in ProviderErrors }

\* the constructor's argument: Optional[Integration]
Integrations == {None} \cup { Some(p) : p \in Providers }

---------------------------------------------------------------------------
(* ContentfulApp.__init__ *)

MockNoIntegration == "http://mock.contentful/graphql/no-integration-provided"

MockMissingSpaceId == "http://mock.contentful/graphql/missing-space-id"

\* the domain chosen with the flag ignored
contentful_api_domain_ignores_flag(is_eu_customer) == "graphql.contentful.com"

\* the domain chosen by is_eu_customer
contentful_api_domain(is_eu_customer) ==
    IF is_eu_customer THEN "graphql.eu.contentful.com"
                      ELSE "graphql.contentful.com"

\* the base URL handed to the superclass constructor when the integration
\* returned `credentials`
calculated_base_url_for_super(credentials) ==
    LET sp  == Get(credentials, "space_id")
        env == GetDefault(credentials, "environment_id", "master")
        eu  == GetDefault(credentials, "is_eu_customer", FALSE)
    IN  IF ~TruthyStr(sp)
        THEN MockMissingSpaceId
        ELSE "https://" \o contentful_api_domain(eu)
                 \o "/content/v1/spaces/" \o sp[1]
                 \o "/environments/" \o env

\* self._access_token = credentials.get("access_token") or credentials.get("api_key")
access_token_of(credentials) ==
    OrStr(Get(credentials, "access_token"), Get(credentials, "api_key"))

\* the constructor, run once on a new object
__init__ ==
    /\ constructed = "no"
    /\ IF integration = None
       THEN /\ space_id' = None
            /\ environment_id' = "master"
            /\ _access_token' = None
            /\ base_url' = MockNoIntegration
            /\ constructed' = "yes"
            /\ UNCHANGED credCalls
       ELSE LET provider == integration[1]
                credentials == provider.credentials
            IN  /\ credCalls' = credCalls + 1
                /\ IF provider.behaviour = "raises"
                   THEN \* nothing catches the provider's exception
                        /\ space_id' = None
                        /\ environment_id' = "master"
                        /\ _access_token' = None
                        /\ constructed' = "raised"
                        /\ UNCHANGED base_url
                   ELSE /\ space_id' = Get(credentials, "space_id")
                        /\ _access_token' = access_token_of(credentials)
                        /\ environment_id' =
                               GetDefault(credentials, "environment_id", "master")
                        /\ base_url' = calculated_base_url_for_super(credentials)
                        /\ constructed' = "yes"
    /\ UNCHANGED <<integration, call, sent, result, nextObj>>
    /\ UNCHANGED caseVars

---------------------------------------------------------------------------
(* The tool methods *)

\* the literal name fragments of the query templates
CollectionSuffix == <<"C","o","l","l","e","c","t","i","o","n">>

FilterSuffix == <<"F","i","l","t","e","r">>

OrderSuffix == <<"O","r","d","e","r">>

AssetField == <<"a","s","s","e","t">>

AssetTypePrefix == <<"A","s","s","e","t">>

DefaultAssetFields ==
    "sys { id } url title description fileName contentType size width height"

\* a query document: the operation's name, the top-level selected field, the
\* declared types of $where and of the elements of $order (empty: the
\* document declares no such variable) and the interpolated selection
Document(operation, field, filter_type, order_enum_type, selection) ==
    [operation |-> operation, field |-> field, filter_type |-> filter_type,
     order_enum_type |-> order_enum_type, selection |-> selection]

\* get_entry's document with the type-name conversion used for the field
get_entry_query_gql_pascal(content_type_id, fields_to_select) ==
    Document("GetEntryById", _to_pascal_case(content_type_id), <<>>, <<>>,
             fields_to_select)

\* get_entry: query_gql
get_entry_query_gql(content_type_id, fields_to_select) ==
    Document("GetEntryById", _to_camel_case(content_type_id), <<>>, <<>>,
             fields_to_select)

\* get_entry: variables
get_entry_variables(entry_id, locale, preview) ==
    LET variables == Put(Put(EmptyDict, "id", Some(entry_id)),
                         "preview", Some(preview))
    IN  IF TruthyStr(locale) THEN Put(variables, "locale", locale)
                             ELSE variables

\* get_entries_collection: query_gql
get_entries_collection_query_gql(content_type_id, fields_to_select_for_item) ==
    Document("GetEntries",
             _to_camel_case(content_type_id) \o CollectionSuffix,
             _to_pascal_case(content_type_id) \o FilterSuffix,
             _to_pascal_case(content_type_id) \o OrderSuffix,
             fields_to_select_for_item)

\* the variables of get_entries_collection with `if limit:` and `if skip:` in
\* place of the `is not None` tests: a limit or skip of 0 is left out
get_entries_collection_variables_truthy(limit, skip, where, order, locale, preview) ==
    LET v0 == Put(EmptyDict, "preview", Some(preview))
        v1 == IF limit # None /\ limit[1] # 0 THEN Put(v0, "limit", limit) ELSE v0
        v2 == IF skip # None /\ skip[1] # 0 THEN Put(v1, "skip", skip) ELSE v1
        v3 == IF TruthyDict(where) THEN Put(v2, "where", where) ELSE v2
        v4 == IF TruthyList(order) THEN Put(v3, "order", order) ELSE v3
    IN  IF TruthyStr(locale) THEN Put(v4, "locale", locale) ELSE v4

\* get_entries_collection: variables
get_entries_collection_variables(limit, skip, where, order, locale, preview) ==
    LET v0 == Put(EmptyDict, "preview", Some(preview))
        v1 == IF limit # None THEN Put(v0, "limit", limit) ELSE v0
        v2 == IF skip # None THEN Put(v1, "skip", skip) ELSE v1
        v3 == IF TruthyDict(where) THEN Put(v2, "where", where) ELSE v2
        v4 == IF TruthyList(order) THEN Put(v3, "order", order) ELSE v3
    IN  IF TruthyStr(locale) THEN Put(v4, "locale", locale) ELSE v4

\* get_asset: query_gql
get_asset_query_gql(fields_to_select) ==
    Document("GetAssetById", AssetField, <<>>, <<>>, fields_to_select)

\* get_asset: variables
get_asset_variables(asset_id, preview) ==
    Put(Put(EmptyDict, "id", Some(asset_id)), "preview", Some(preview))

\* get_assets_collection: query_gql
get_assets_collection_query_gql(fields_to_select_for_item) ==
    Document("GetAssets", AssetField \o CollectionSuffix,
             AssetTypePrefix \o FilterSuffix, AssetTypePrefix \o OrderSuffix,
             fields_to_select_for_item)

\* get_assets_collection: variables
get_assets_collection_variables(limit, skip, where, order, locale, preview) ==
    LET v0 == Put(EmptyDict, "preview", Some(preview))
        v1 == IF limit # None THEN Put(v0, "limit", limit) ELSE v0
        v2 == IF skip # None THEN Put(v1, "skip", skip) ELSE v1
        v3 == IF TruthyDict(where) THEN Put(v2, "where", where) ELSE v2
        v4 == IF TruthyList(order) THEN Put(v3, "order", order) ELSE v3
    IN  IF TruthyStr(locale) THEN Put(v4, "locale", locale) ELSE v4

\* what the execution collaborator (self.query, self.mutate: the superclass
\* and its transport) may do with a request
Outcomes == {"returns", "raises"}

\* the mapping the collaborator returns
Data == Put(EmptyDict, "data", "payload")

\* the exception the collaborator raises
TransportError == Put(EmptyDict, "exception", "TransportQueryError")

\* the identity of a dict the caller owns, not one the method built
CallerObj == 0 - 1

\* the arguments of a tool invocation; an argument the tool does not take
\* is None (FALSE for preview)
Invocation(op, content_type_id, id, fields, limit, skip, where, order, locale, preview, variables, outcome) ==
    [op |-> op, content_type_id |-> content_type_id, id |-> id,
     fields |-> fields, limit |-> limit, skip |-> skip, where |-> where,
     order |-> order, locale |-> locale, preview |-> preview,
     variables |-> variables, outcome |-> outcome]

\* `return self.query(document, variables=variables)` and
\* `return self.mutate(...)`: the request goes to the collaborator and the
\* collaborator's return value or exception goes to the caller unchanged;
\* obj is the identity of the variables dict
Delegate(method, document, variables, obj, outcome) ==
    /\ sent' = Some([method |-> method, document |-> document,
                     variables |-> variables, varsObj |-> obj])
    /\ result' = IF outcome = "returns"
                 THEN Some([kind |-> "return", value |-> Data])
                 ELSE Some([kind |-> "raise", value |-> TransportError])

\* a tool method that fetches the credentials again on every invocation
ToolFrame_requeries_provider ==
    /\ credCalls' = IF credCalls < 2 THEN credCalls + 1 ELSE credCalls
    /\ UNCHANGED <<integration, constructed, space_id, environment_id,
                   _access_token, base_url>>
    /\ UNCHANGED caseVars

\* what no tool method assigns
ToolFrame ==
    /\ UNCHANGED <<integration, constructed, space_id, environment_id,
                   _access_token, base_url, credCalls>>
    /\ UNCHANGED caseVars

\* the dict of the previous invocation used again (a dict kept on the
\* instance, or a mutable default argument)
ReusedDict == IF sent = None THEN nextObj ELSE sent[1].varsObj

\* the variables dict a tool method builds is a new object
NewDict == nextObj

get_entry(content_type_id, entry_id, fields_to_select, locale, preview, outcome) ==
    /\ constructed = "yes"
    /\ nextObj < MaxObjs
    /\ call' = Some(Invocation("get_entry", content_type_id, Some(entry_id),
                          fields_to_select, None, None, None, None, locale,
                          preview, None, outcome))
    /\ nextObj' = nextObj + 1
    /\ Delegate("query",
                get_entry_query_gql(content_type_id, fields_to_select),
                Some(get_entry_variables(entry_id, locale, preview)),
                NewDict, outcome)
    /\ ToolFrame

get_entries_collection(content_type_id, fields_to_select_for_item, limit, skip, where, order, locale, preview, outcome) ==
    /\ constructed = "yes"
    /\ nextObj < MaxObjs
    /\ call' = Some(Invocation("get_entries_collection", content_type_id, None,
                          fields_to_select_for_item, limit, skip, where, order,
                          locale, preview, None, outcome))
    /\ nextObj' = nextObj + 1
    /\ Delegate("query",
                get_entries_collection_query_gql(content_type_id,
                                                 fields_to_select_for_item),
                Some(get_entries_collection_variables(limit, skip, where, order,
                                                      locale, preview)),
                NewDict, outcome)
    /\ ToolFrame

get_asset(asset_id, fields_to_select, preview, outcome) ==
    /\ constructed = "yes"
    /\ nextObj < MaxObjs
    /\ call' = Some(Invocation("get_asset", <<>>, Some(asset_id), fields_to_select,
                          None, None, None, None, None, preview, None, outcome))
    /\ nextObj' = nextObj + 1
    /\ Delegate("query", get_asset_query_gql(fields_to_select),
                Some(get_asset_variables(asset_id, preview)), NewDict, outcome)
    /\ ToolFrame

get_assets_collection(fields_to_select_for_item, limit, skip, where, order, locale, preview, outcome) ==
    /\ constructed = "yes"
    /\ nextObj < MaxObjs
    /\ call' = Some(Invocation("get_assets_collection", <<>>, None,
                          fields_to_select_for_item, limit, skip, where, order,
                          locale, preview, None, outcome))
    /\ nextObj' = nextObj + 1
    /\ Delegate("query",
                get_assets_collection_query_gql(fields_to_select_for_item),
                Some(get_assets_collection_variables(limit, skip, where, order,
                                                     locale, preview)),
                NewDict, outcome)
    /\ ToolFrame

\* the caller's query string and the caller's variables go through as they are
RawDocument(text) == Document("raw", <<>>, <<>>, <<>>, text)

execute_graphql_query(query_string, variables, outcome) ==
    /\ constructed = "yes"
    /\ call' = Some(Invocation("execute_graphql_query", <<>>, None, query_string,
                          None, None, None, None, None, FALSE, variables,
                          outcome))
    /\ Delegate("query", RawDocument(query_string), variables, CallerObj,
                outcome)
    /\ UNCHANGED nextObj
    /\ ToolFrame

execute_graphql_mutation(mutation_string, variables, outcome) ==
    /\ constructed = "yes"
    /\ call' = Some(Invocation("execute_graphql_mutation", <<>>, None,
                          mutation_string, None, None, None, None, None, FALSE,
                          variables, outcome))
    /\ Delegate("mutate", RawDocument(mutation_string), variables, CallerObj,
                outcome)
    /\ UNCHANGED nextObj
    /\ ToolFrame

---------------------------------------------------------------------------
(* The arguments the tools are invoked with *)

BlogPost == <<"b","l","o","g","-","p","o","s","t">>

ContentTypeIds == {BlogPost, <<"a","B">>, <<"a","_","a","B">>}

EntryIds == {"e1"}

Selections == {"sys { id } title"}

Limits == {None, Some(0), Some(2)}

Skips == {None, Some(0)}

Wheres == {None, Some(EmptyDict), Some(Put(EmptyDict, "title_contains", "Hello"))}

Orders == {None, Some(<<>>), Some(<<"title_ASC">>)}

Locales == {None, Some(""), Some("en-US")}

RawVariables == {None, Some(Put(EmptyDict, "id", Some("e1")))}

RawQueries == {"query { assetCollection { total } }"}

---------------------------------------------------------------------------
(* The instance: one construction with any integration, then any sequence  *)
(* of tool invocations                                                     *)

Init ==
    /\ integration \in Integrations
    /\ constructed = "no"
    /\ space_id = None
    /\ environment_id = "master"
    /\ _access_token = None
    /\ base_url = ""
    /\ credCalls = 0
    /\ call = None
    /\ sent = None
    /\ result = None
    /\ nextObj = 0
    /\ s_in = <<>>
    /\ camel_out = None
    /\ pascal_out = None

GetEntry ==
    \E c \in ContentTypeIds, e \in EntryIds, f \in Selections, l \in Locales,
       p \in BOOLEAN, o \in Outcomes :
        get_entry(c, e, f, l, p, o)

GetEntriesCollection ==
    \E c \in ContentTypeIds, f \in Selections, li \in {None, Some(2)},
       o \in Outcomes :
        get_entries_collection(c, f, li, None, None, None, None, FALSE, o)

GetAsset ==
    \E a \in EntryIds, p \in BOOLEAN, o \in Outcomes :
        get_asset(a, DefaultAssetFields, p, o)

GetAssetsCollection ==
    \E li \in {None, Some(2)}, o \in Outcomes :
        get_assets_collection(DefaultAssetFields, li, None, None, None, None,
                              FALSE, o)

ExecuteGraphqlQuery ==
    \E q \in RawQueries, v \in RawVariables, o \in Outcomes :
        execute_graphql_query(q, v, o)

ExecuteGraphqlMutation ==
    \E q \in RawQueries, v \in RawVariables, o \in Outcomes :
        execute_graphql_mutation(q, v, o)

Next ==
    \/ __init__
    \/ GetEntry
    \/ GetEntriesCollection
    \/ GetAsset
    \/ GetAssetsCollection
    \/ ExecuteGraphqlQuery
    \/ ExecuteGraphqlMutation

Spec == Init /\ [][Next]_vars

---------------------------------------------------------------------------
(* The collection tools under every combination of their optional          *)
(* parameters, on an instance constructed from complete credentials        *)

CompleteCredentials ==
    MkCredentials(Some("sp1"), Some("cda-token"), None, None, None)

InitVars ==
    /\ integration = Some([behaviour |-> "returns",
                           credentials |-> CompleteCredentials, error |-> ""])
    /\ constructed = "no"
    /\ space_id = None
    /\ environment_id = "master"
    /\ _access_token = None
    /\ base_url = ""
    /\ credCalls = 0
    /\ call = None
    /\ sent = None
    /\ result = None
    /\ nextObj = 0
    /\ s_in = <<>>
    /\ camel_out = None
    /\ pascal_out = None

GetEntriesCollectionAll ==
    \E li \in Limits, sk \in Skips, w \in Wheres, ord \in Orders,
       l \in Locales, o \in Outcomes :
        get_entries_collection(<<"a","B">>, "sys { id } title", li, sk, w, ord,
                               l, FALSE, o)

GetAssetsCollectionAll ==
    \E li \in Limits, sk \in Skips, w \in Wheres, ord \in Orders,
       l \in Locales, o \in Outcomes :
        get_assets_collection(DefaultAssetFields, li, sk, w, ord, l, FALSE, o)

NextVars ==
    \/ __init__
    \/ GetEntriesCollectionAll
    \/ GetAssetsCollectionAll

SpecVars == InitVars /\ [][NextVars]_vars

---------------------------------------------------------------------------
(* The case converters applied to every short string *)

InitCase ==
    /\ integration = None
    /\ constructed = "no"
    /\ space_id = None
    /\ environment_id = "master"
    /\ _access_token = None
    /\ base_url = ""
    /\ credCalls = 0
    /\ call = None
    /\ sent = None
    /\ result = None
    /\ nextObj = 0
    /\ s_in \in Strs
    /\ camel_out = None
    /\ pascal_out = None

ToCamelCase ==
    /\ camel_out = None
    /\ camel_out' = Some(_to_camel_case(s_in))
    /\ UNCHANGED <<s_in, pascal_out>>
    /\ UNCHANGED appVars

ToPascalCase ==
    /\ pascal_out = None
    /\ pascal_out' = Some(_to_pascal_case(s_in))
    /\ UNCHANGED <<s_in, camel_out>>
    /\ UNCHANGED appVars

NextCase == ToCamelCase \/ ToPascalCase

SpecCase == InitCase /\ [][NextCase]_vars

---------------------------------------------------------------------------
(* Properties *)

\* the credentials the integration returns, when it returns any
ReturnedCredentials ==
    IF integration # None /\ integration[1].behaviour = "returns"
    THEN Some(integration[1].credentials)
    ELSE None

\* configuration resolution failed: no credential provider, no space_id, or
\* neither access_token nor api_key
ConfigurationFailed ==
    \/ integration = None
    \/ /\ ReturnedCredentials # None
       /\ \/ ~TruthyStr(Get(ReturnedCredentials[1], "space_id"))
          \/ /\ ~TruthyStr(Get(ReturnedCredentials[1], "access_token"))
             /\ ~TruthyStr(Get(ReturnedCredentials[1], "api_key"))

\* the readiness check of the specification, read off the instance's fields:
\* base URL, space id and token are all non-empty
Ready ==
    /\ constructed = "yes"
    /\ base_url # ""
    /\ TruthyStr(space_id)
    /\ TruthyStr(_access_token)

\* a structured error value: a returned mapping with an `error` key
IsStructuredError(r) == r.kind = "return" /\ "error" \in DOMAIN r.value

\* C1: when configuration resolution failed, every tool operation returns a
\* structured error describing the failure, does not raise and does not hand
\* the query to the execution collaborator, on the first call and on every
\* later one.
C1_FailedConfigurationReturnsError ==
    (constructed = "yes" /\ ConfigurationFailed /\ call # None)
        => (IsStructuredError(result[1]) /\ sent = None)

\* C2: when the execution collaborator's call raises, the tool operation
\* returns a mapping with an `error` key; no exception reaches the caller.
C2_CollaboratorFailureReturnsError ==
    (call # None /\ call[1].outcome = "raises") => IsStructuredError(result[1])

C4_ProviderErrorCaught ==
    (integration # None /\ integration[1].behaviour = "raises"
        /\ constructed # "no")
        => (constructed = "yes" /\ ~Ready)

\* C5: for the two collection operations and every combination of limit,
\* skip, where, order and locale, a key is in the variables handed to the
\* collaborator exactly when its parameter is present (not None, and not
\* empty for where, order and locale), it then maps to the parameter's value,
\* and no key maps to None.
C5_VariablesHoldExactlyThePresentParameters ==
    (call # None /\ call[1].op \in {"get_entries_collection",
                                     "get_assets_collection"})
        => LET c == call[1]
               v == sent[1].variables[1]
           IN  /\ ("limit" \in DOMAIN v) <=> (c.limit # None)
               /\ ("skip" \in DOMAIN v) <=> (c.skip # None)
               /\ ("where" \in DOMAIN v) <=> TruthyDict(c.where)
               /\ ("order" \in DOMAIN v) <=> TruthyList(c.order)
               /\ ("locale" \in DOMAIN v) <=> TruthyStr(c.locale)
               /\ DOMAIN v \subseteq {"preview", "limit", "skip", "where",
                                      "order", "locale"}
               /\ \A k \in DOMAIN v : v[k] # None
               /\ \A k \in DOMAIN v \ {"preview"} : v[k] = c[k]
               /\ v["preview"] = Some(c.preview)

\* witness of C5: a collection call with limit=None, skip=0, where={},
\* order=[] and locale="" sends only `preview` and `skip`
C5_Witness ==
    /\ call # None
    /\ call[1].op = "get_entries_collection"
    /\ call[1].limit = None
    /\ call[1].skip = Some(0)
    /\ call[1].where = Some(EmptyDict)
    /\ call[1].order = Some(<<>>)
    /\ call[1].locale = Some("")
    /\ DOMAIN sent[1].variables[1] = {"preview", "skip"}

\* C6: given credentials with a non-empty space_id, the base URL is
\* https://{domain}/content/v1/spaces/{space_id}/environments/{environment_id}
\* with environment_id "master" when none is supplied, the EU domain when
\* is_eu_customer is true and the default domain when it is false or omitted.
C6_BaseUrl ==
    (constructed = "yes" /\ ReturnedCredentials # None
        /\ TruthyStr(Get(ReturnedCredentials[1], "space_id")))
        => LET cr  == ReturnedCredentials[1]
               env == IF "environment_id" \in DOMAIN cr
                      THEN cr["environment_id"] ELSE "master"
               dom == IF "is_eu_customer" \in DOMAIN cr /\ cr["is_eu_customer"]
                      THEN "graphql.eu.contentful.com"
                      ELSE "graphql.contentful.com"
           IN  /\ base_url = "https://" \o dom \o "/content/v1/spaces/"
                                 \o cr["space_id"] \o "/environments/" \o env
               /\ (cr = MkCredentials(Some("sp1"), None, None, None, None)
                     => base_url = "https://graphql.contentful.com/content/v1/spaces/sp1/environments/master")

\* witness of C6: an EU customer with a supplied environment
C6_Witness ==
    /\ constructed = "yes"
    /\ ReturnedCredentials # None
    /\ Get(ReturnedCredentials[1], "is_eu_customer") = Some(TRUE)
    /\ Get(ReturnedCredentials[1], "environment_id") = Some("staging")
    /\ base_url = "https://graphql.eu.contentful.com/content/v1/spaces/sp1/environments/staging"

\* the tokens of the specification: split on `-`, `_` and whitespace
Tokens(w) == split(replace(replace(w, "-", " "), "_", " "))

\* first character upper-cased, the remaining characters unchanged
UpperFirst(w) == [i \in 1..Len(w) |-> IF i = 1 THEN UpperChar(w[i]) ELSE w[i]]

\* first character lower-cased, the remaining characters unchanged
LowerFirst(w) == [i \in 1..Len(w) |-> IF i = 1 THEN LowerChar(w[i]) ELSE w[i]]

UpperFirstAll(words) == [i \in 1..Len(words) |-> UpperFirst(words[i])]

\* C7: for an input of two or more tokens, toCamelCase is the first token
\* lower-cased followed by every later token with its first character
\* upper-cased and its other characters unchanged; toPascalCase is every
\* token so capitalized.
C7_MultiTokenKeepsTheRestOfEachToken ==
    Len(Tokens(s_in)) >= 2
        => /\ camel_out # None
                => camel_out[1] = lower(Tokens(s_in)[1])
                                      \o join(UpperFirstAll(Tail(Tokens(s_in))))
           /\ pascal_out # None
                => pascal_out[1] = join(UpperFirstAll(Tokens(s_in)))

\* C8 as stated: the converters return the empty string for zero tokens, and
\* for every input that is one token once trimmed and normalized they change
\* only the case of that token's first character.
C8_OneTokenOnceTrimmed ==
    /\ Len(Tokens(s_in)) = 0
         => /\ camel_out # None => camel_out[1] = <<>>
            /\ pascal_out # None => pascal_out[1] = <<>>
    /\ Len(Tokens(s_in)) = 1
         => /\ camel_out # None => camel_out[1] = LowerFirst(Tokens(s_in)[1])
            /\ pascal_out # None => pascal_out[1] = UpperFirst(Tokens(s_in)[1])

\* the input holds no `-`, `_` or whitespace character at all
NoSeparator(w) == \A i \in 1..Len(w) : w[i] \notin {"-", "_", " ", "\t"}

\* C8 as amended: the converters are defined for every string, return the
\* empty string for zero tokens, and for every non-empty input holding no
\* `-`, `_` or whitespace character at all (leading and trailing ones
\* included) change only the case of the first character.
C8_NoSeparatorAtAll ==
    /\ camel_out # None => DOMAIN camel_out[1] = 1..Len(camel_out[1])
    /\ pascal_out # None => DOMAIN pascal_out[1] = 1..Len(pascal_out[1])
    /\ Len(Tokens(s_in)) = 0
         => /\ camel_out # None => camel_out[1] = <<>>
            /\ pascal_out # None => pascal_out[1] = <<>>
    /\ (s_in # <<>> /\ NoSeparator(s_in))
         => /\ camel_out # None => camel_out[1] = LowerFirst(s_in)
            /\ pascal_out # None => pascal_out[1] = UpperFirst(s_in)

\* witness of C8: "BaB" converted both ways, the inner "B" kept
C8_Witness ==
    /\ s_in = <<"B", "a", "B">>
    /\ camel_out = Some(<<"b", "a", "B">>)
    /\ pascal_out = Some(<<"B", "a", "B">>)

\* the variables C9 expects of fetchEntry: id and preview, and locale when one
\* is given
EntryVariables(c) ==
    [k \in {"id", "preview"} \cup (IF TruthyStr(c.locale) THEN {"locale"} ELSE {})
        |-> CASE k = "id" -> c.id
              [] k = "preview" -> Some(c.preview)
              [] k = "locale" -> c.locale]

\* C9: on a ready instance, fetchEntry sends a document whose top-level field
\* is toCamelCase(contentTypeId) with variables exactly {id, preview} plus
\* locale when one is given, and fetchEntriesCollection sends a document
\* whose collection field is toCamelCase(contentTypeId)+"Collection", whose
\* $where type is toPascalCase(contentTypeId)+"Filter" and whose $order
\* element type is toPascalCase(contentTypeId)+"Order"; "blog-post" gives the
\* field "blogPost".
C9_DerivedNamesAndEntryVariables ==
    (Ready /\ call # None)
        => LET c == call[1]
               d == sent[1].document
           IN  /\ c.op = "get_entry"
                    => /\ sent[1].method = "query"
                       /\ d.field = _to_camel_case(c.content_type_id)
                       /\ d.selection = c.fields
                       /\ sent[1].variables = Some(EntryVariables(c))
                       /\ c.content_type_id = BlogPost
                            => d.field = <<"b","l","o","g","P","o","s","t">>
               /\ c.op = "get_entries_collection"
                    => /\ sent[1].method = "query"
                       /\ d.field = _to_camel_case(c.content_type_id)
                                        \o CollectionSuffix
                       /\ d.filter_type = _to_pascal_case(c.content_type_id)
                                              \o FilterSuffix
                       /\ d.order_enum_type = _to_pascal_case(c.content_type_id)
                                                  \o OrderSuffix
                       /\ c.content_type_id = BlogPost
                            => /\ d.field = <<"b","l","o","g","P","o","s","t">>
                                                \o CollectionSuffix
                               /\ d.filter_type = <<"B","l","o","g","P","o","s","t",
                                                    "F","i","l","t","e","r">>

\* witness of C9: fetchEntry("blog-post", "e1", "sys { id } title") on a
\* ready instance
C9_Witness ==
    /\ Ready
    /\ call # None
    /\ call[1].op = "get_entry"
    /\ call[1].content_type_id = BlogPost
    /\ call[1].locale = None
    /\ call[1].preview = FALSE
    /\ sent[1].document.field = <<"b","l","o","g","P","o","s","t">>
    /\ DOMAIN sent[1].variables[1] = {"id", "preview"}
    /\ sent[1].variables[1]["id"] = Some("e1")
    /\ sent[1].variables[1]["preview"] = Some(FALSE)

\* the resolved configuration
Configuration == <<space_id, environment_id, _access_token, base_url>>

\* C10: the resolved configuration is written by the construction only and by
\* no tool operation, whatever its arguments, and the variables mapping a tool
\* builds for a call is an object no earlier call was given.
C10_ConfigurationImmutableVariablesFresh ==
    [][/\ Configuration' # Configuration
            => (constructed = "no" /\ constructed' # "no")
       /\ constructed = "yes" => Configuration' = Configuration
       /\ nextObj' # nextObj
            => /\ sent'[1].varsObj >= nextObj
               /\ sent'[1].varsObj < nextObj'
               /\ sent = None \/ sent'[1].varsObj # sent[1].varsObj]_vars

\* witness of C10: a resolved configuration and a second built mapping
C10_Witness ==
    /\ Ready
    /\ nextObj = 2
    /\ sent # None
    /\ sent[1].varsObj = 1
    /\ call[1].op = "get_assets_collection"

====
